---- MODULE Spec2Model ----
(***************************************************************************)
(* A model of webrender/src/scene.rs: the animated property store          *)
(* (SceneProperties), the pipeline registry (Scene) and the compositing    *)
(* helpers of a stacking context (StackingContextHelpers).                 *)
(***************************************************************************)
EXTENDS Integers, Sequences, FiniteSets, TLC

VARIABLES
    \* SceneProperties (scene.rs:17-22)
    transform_properties,   \* FastHashMap<PropertyBindingId, LayoutTransform>
    float_properties,       \* FastHashMap<PropertyBindingId, f32>
    current_properties,     \* DynamicProperties
    pending_properties,     \* Option<DynamicProperties>: <<>> is None, <<p>> is Some(p)
    \* observation of the calls made on the property store
    last_call,              \* the last method called on the store
    prev_call,              \* the method called before it
    prev2_call,             \* and the one before that
    properties_changed,     \* what the last flush_pending_updates returned
    \* Scene (scene.rs:138-142)
    root_pipeline_id,       \* Option<PipelineId>: <<>> is None, <<id>> is Some(id)
    pipelines,              \* FastHashMap<PipelineId, Arc<ScenePipeline>>: id to the
                            \* address of the shared allocation
    arcs,                   \* the shared allocations: address to ScenePipeline
    pipeline_epochs,        \* FastHashMap<PipelineId, Epoch>
    \* observation of the calls made on the registry
    scene_call,             \* the last method called on the registry
    scene_arg,              \* its pipeline_id argument, <<>> before any call
    scene_epoch,            \* its epoch argument, <<>> when it has none
    cleared_root,           \* <<id>> when remove_pipeline(id) cleared the root and
                            \* set_root_pipeline_id has not been called since, else <<>>
    \* a reader of the registry
    reader_arc,             \* Option<Arc<ScenePipeline>>: the clone the reader holds
    reader_seen,            \* the ScenePipeline the reader saw when it took the clone
    \* StackingContextHelpers (scene.rs:199-271)
    debug_assertions,       \* whether the build compiles debug_assert! in
    mix_blend_mode,         \* StackingContext::mix_blend_mode
    input_filter_datas,     \* &[TempFilterData]
    blend_returned,         \* <<r>> once mix_blend_mode_for_compositing returned r
    filter_returned,        \* <<v>> once filter_datas_for_compositing returned v
    filter_panicked         \* filter_datas_for_compositing panicked

propVars == <<transform_properties, float_properties, current_properties,
              pending_properties, last_call, prev_call, prev2_call,
              properties_changed>>
sceneVars == <<root_pipeline_id, pipelines, arcs, pipeline_epochs, scene_call, scene_arg,
               scene_epoch, cleared_root, reader_arc, reader_seen>>
compVars == <<debug_assertions, mix_blend_mode, input_filter_datas, blend_returned,
              filter_returned, filter_panicked>>
vars == <<propVars, sceneVars, compVars>>

-----------------------------------------------------------------------------
(* Bounds and input domains                                                *)

\* The longest property list (transforms and floats together) the pending set
\* is allowed to grow to.
MaxLen == 2

\* PropertyBindingId values.
BindingIds == {"A", "B"}

\* The calls on the property store.
New == "new"
SetProperties == "set_properties"
AddProperties == "add_properties"
Flush == "flush_pending_updates"

\* f32 values; NaN is the IEEE not-a-number, which compares unequal to itself.
NaN == "NaN"
FloatValues == {"1.0", "2.0", NaN}

\* LayoutTransform values (matrices of f32).
TransformValues == {"T1", "T2"}

None == <<>>
Some(x) == <<x>>

\* PropertyValue<T> { key: PropertyBindingKey { id }, value }
PropertyValue(id, v) == [key |-> id, value |-> v]

\* The entries the clients of the model submit: a transform binding, and two
\* float bindings, one of them given a number and a NaN.
TransformEntries == {PropertyValue("A", "T1")}
FloatEntries == {PropertyValue("A", "1.0"), PropertyValue("B", "2.0"), PropertyValue("B", NaN)}

SeqsUpTo(S, n) == UNION {[1..k -> S] : k \in 0..n}

\* DynamicProperties { transforms: Vec<..>, floats: Vec<..> } of at most n entries.
DynProps(n) ==
    {p \in [transforms : SeqsUpTo(TransformEntries, n), floats : SeqsUpTo(FloatEntries, n)] :
        Len(p.transforms) + Len(p.floats) <= n}

\* PipelineId values.
PipelineIds == {"P1", "P2"}

\* The largest Epoch a client submits.
MaxEpoch == 2
Epochs == 0..MaxEpoch

\* The fields of a display list submission.
DisplayLists == {"dl1", "dl2"}
BackgroundColors == {None, Some("white")}
ViewportSizes == {"800x600"}
ContentSizes == {"800x2000"}

\* The epoch the registry is given while a reader is watched: the snapshots do
\* not hold the epoch.
ReaderEpochs == {MaxEpoch}

\* The calls on the registry.
SetRootPipelineId == "set_root_pipeline_id"
SetDisplayList == "set_display_list"
RemovePipeline == "remove_pipeline"
UpdateEpoch == "update_epoch"

\* The most entries a record's function-type list has, and the most records
\* filter_datas_for_compositing is given.
MaxFuncTypes == 5
MaxRecords == 2

\* MixBlendMode values: Normal and some of the others.
Normal == "Normal"
MixBlendModes == {Normal, "Multiply", "Screen", "Luminosity"}

\* ComponentTransferFuncType values, in the order of the enum.
FuncTypes == <<"Identity", "Table", "Discrete", "Linear", "Gamma">>

\* The function-type list of n entries that starts at the s-th type and goes
\* through the types in order.
FuncTypeList(n, s) == [i \in 1..n |-> FuncTypes[((i + s - 2) % Len(FuncTypes)) + 1]]

\* TempFilterData with the given function types; the four value tables are told
\* apart by their values.
TempFilterData(func_types) ==
    [func_types |-> func_types,
     r_values |-> <<"0.1">>,
     g_values |-> <<"0.2">>,
     b_values |-> <<"0.3">>,
     a_values |-> <<"0.4">>]

\* The records the upstream decoder hands over: of every length up to
\* MaxFuncTypes, starting at the first or at the second type.
TempFilterDatas == {TempFilterData(FuncTypeList(n, s)) : n \in 0..MaxFuncTypes, s \in 1..2}
InputFilterDatas == SeqsUpTo(TempFilterDatas, MaxRecords)

\* The property sets the clients of the model submit.
SubmittedSets == DynProps(MaxLen)

\* DynamicProperties::default()
DefaultProperties == [transforms |-> <<>>, floats |-> <<>>]

-----------------------------------------------------------------------------
(* SceneProperties                                                         *)

\* f32 == f32: IEEE equality, NaN is equal to nothing, itself included.
ValueEq(a, b) == a = b /\ a # NaN

\* PropertyValue<T> == PropertyValue<T>: the key's id and the value.
PropertyValueEq(p, q) == p.key = q.key /\ ValueEq(p.value, q.value)

\* Vec<PropertyValue<T>> == Vec<PropertyValue<T>>: same length, equal element by element.
VecEq(v, w) ==
    /\ Len(v) = Len(w)
    /\ \A i \in 1..Len(v) : PropertyValueEq(v[i], w[i])

\* DynamicProperties == DynamicProperties, the comparison flush makes.
DynamicPropertiesEq(p, c) ==
    /\ VecEq(p.transforms, c.transforms)
    /\ VecEq(p.floats, c.floats)

\* FastHashMap::default()
EmptyMap == [k \in {} |-> None]

\* Insert that keeps the value a key already has.
Insert_keep_first(m, k, v) ==
    [x \in (DOMAIN m) \cup {k} |-> IF x \in DOMAIN m THEN m[x] ELSE v]

\* FastHashMap::insert(k, v): a later insert of the same key overwrites.
Insert(m, k, v) == [x \in (DOMAIN m) \cup {k} |-> IF x = k THEN v ELSE m[x]]

\* for property in &list { map.insert(property.key.id, property.value) }
RECURSIVE InsertAll(_, _)
InsertAll(m, list) ==
    IF list = <<>> THEN m
    ELSE InsertAll(Insert(m, Head(list).key, Head(list).value), Tail(list))

\* Clear that clears nothing.
Clear_nothing(m) == m

\* FastHashMap::clear()
Clear(m) == EmptyMap

\* The lookup table flush builds from a list: the old table cleared, then every
\* entry of the list inserted in order.
RebuildTable(old, list) == InsertAll(Clear(old), list)

\* TakeOrDefault that forgets what was pending.
TakeOrDefault_fresh(pending) == DefaultProperties

\* self.pending_properties.take().unwrap_or_default()
TakeOrDefault(pending) == IF pending = None THEN DefaultProperties ELSE pending[1]

\* Vec::extend: the incoming entries are appended after the existing ones.
Extend(list, more) == list \o more

\* The pending set add_properties leaves behind.
AddedTo(pending, properties) ==
    LET taken == TakeOrDefault(pending) IN
    Some([transforms |-> Extend(taken.transforms, properties.transforms),
          floats |-> Extend(taken.floats, properties.floats)])

\* FlushChanges without the comparison: whatever is pending counts as a change.
FlushChanges_uncompared(pending, current) == pending # None

\* The test of flush_pending_updates: a pending set exists and is != the current set.
FlushChanges(pending, current) ==
    /\ pending # None
    /\ ~DynamicPropertiesEq(pending[1], current)

\* The pending set set_properties leaves behind.
SetTo(pending, properties) == Some(properties)

\* What flush_pending_updates makes of the store when the pending slot holds
\* `pending`: its return value, the lookup tables and the current set.
Flushed(pending) ==
    IF FlushChanges(pending, current_properties)
    THEN [changed |-> TRUE,
          transform_properties |-> RebuildTable(transform_properties, pending[1].transforms),
          float_properties |-> RebuildTable(float_properties, pending[1].floats),
          current_properties |-> pending[1]]
    ELSE [changed |-> FALSE,
          transform_properties |-> transform_properties,
          float_properties |-> float_properties,
          current_properties |-> current_properties]

\* A flush that takes the pending set out of its slot.
PendingAfterFlush_taken(pending) == None

\* The pending slot after flush_pending_updates: the flush borrows the pending
\* set (if let Some(ref ..)) and leaves it in the slot.
PendingAfterFlush(pending) == pending

\* An edit that inserts the submitted entries into the lookup table at once.
Unflushed_applied(table, list) == InsertAll(table, list)

\* A lookup table after set_properties or add_properties of a list: the edits
\* write the pending slot only, the table is as it was.
Unflushed(table, list) == table

\* A call on the property store: it is recorded, and the registry is not touched.
Called(name) ==
    /\ last_call' = name
    /\ prev_call' = last_call
    /\ prev2_call' = prev_call
    /\ UNCHANGED <<sceneVars, compVars>>

\* SceneProperties::new()
PropInit ==
    /\ transform_properties = EmptyMap
    /\ float_properties = EmptyMap
    /\ current_properties = DefaultProperties
    /\ pending_properties = None
    /\ last_call = New
    /\ prev_call = New
    /\ prev2_call = New
    /\ properties_changed = FALSE

set_properties(properties) ==
    /\ pending_properties' = SetTo(pending_properties, properties)
    /\ transform_properties' = Unflushed(transform_properties, properties.transforms)
    /\ float_properties' = Unflushed(float_properties, properties.floats)
    /\ Called(SetProperties)
    /\ UNCHANGED <<current_properties, properties_changed>>

add_properties(properties) ==
    /\ Len(TakeOrDefault(pending_properties).transforms) + Len(properties.transforms)
         + Len(TakeOrDefault(pending_properties).floats) + Len(properties.floats) <= MaxLen
    /\ pending_properties' = AddedTo(pending_properties, properties)
    /\ transform_properties' = Unflushed(transform_properties, properties.transforms)
    /\ float_properties' = Unflushed(float_properties, properties.floats)
    /\ Called(AddProperties)
    /\ UNCHANGED <<current_properties, properties_changed>>

flush_pending_updates ==
    /\ properties_changed' = Flushed(pending_properties).changed
    /\ transform_properties' = Flushed(pending_properties).transform_properties
    /\ float_properties' = Flushed(pending_properties).float_properties
    /\ current_properties' = Flushed(pending_properties).current_properties
    /\ pending_properties' = PendingAfterFlush(pending_properties)
    /\ Called(Flush)

\* PropertyBinding<T>: Value(value) or Binding(key, fallback).
Bindings(values) ==
    [kind : {"Value"}, value : values]
        \cup [kind : {"Binding"}, key : BindingIds, value : values]

\* Resolve that never looks the key up.
Resolve_unlooked(table, property) == property.value

\* The match of resolve_layout_transform and resolve_float over a lookup table.
Resolve(table, property) ==
    IF property.kind = "Value" THEN property.value
    ELSE IF property.key \in DOMAIN table THEN table[property.key]
    ELSE property.value

\* The bindings the clients of the model resolve.
TransformBindings == Bindings(TransformValues)
FloatBindings == Bindings(FloatValues)

resolve_layout_transform(property) == Resolve(transform_properties, property)

resolve_float(property) == Resolve(float_properties, property)

-----------------------------------------------------------------------------
(* Scene                                                                   *)

\* FastHashMap::remove(k)
Remove(m, k) == [x \in (DOMAIN m) \ {k} |-> m[x]]

\* FastHashMap::contains_key(k)
ContainsKey(m, k) == k \in DOMAIN m

\* The ScenePipeline set_display_list builds from its arguments.
ScenePipeline(pipeline_id, display_list, background_color, viewport_size, content_size) ==
    [pipeline_id |-> pipeline_id,
     viewport_size |-> viewport_size,
     content_size |-> content_size,
     background_color |-> background_color,
     display_list |-> display_list]

\* The addresses an Arc<ScenePipeline> can be allocated at: one for each
\* pipeline, one for a clone a reader still holds, and one for the allocation
\* that is being installed while the one it replaces is still alive.
Addresses == 1..(Cardinality(PipelineIds) + 2)

\* The allocations that are still referenced: by the map, or by the reader.
Referenced(map, reader) == {map[k] : k \in DOMAIN map} \cup {reader[i] : i \in DOMAIN reader}

\* Dropping an Arc frees its allocation when no other clone is left.
Dropped(heap, live) == [a \in (DOMAIN heap) \cap live |-> heap[a]]

\* An allocation that reuses the one it replaces: the snapshot is written in place.
Arc_new_in_place(heap, replaced) ==
    IF replaced # None THEN replaced[1]
    ELSE CHOOSE a \in Addresses \ DOMAIN heap : \A b \in Addresses \ DOMAIN heap : a <= b

\* Arc::new: a new allocation, at an address no live allocation has (the lowest
\* one: which free address the allocator hands out is not observable).
Arc_new(heap, replaced) ==
    CHOOSE a \in Addresses \ DOMAIN heap : \A b \in Addresses \ DOMAIN heap : a <= b

\* FastHashMap::get(k)
Get(m, k) == IF k \in DOMAIN m THEN Some(m[k]) ELSE None

\* RootAfterRemove that never clears the root.
RootAfterRemove_kept(root, pipeline_id) == root

\* The root remove_pipeline(pipeline_id) leaves behind.
RootAfterRemove(root, pipeline_id) ==
    IF root = Some(pipeline_id) THEN None ELSE root

\* A call on the registry: it is recorded, and the property store is not touched.
SceneCalled(name, pipeline_id, epoch) ==
    /\ scene_call' = name
    /\ scene_arg' = Some(pipeline_id)
    /\ scene_epoch' = epoch
    /\ UNCHANGED <<propVars, compVars>>

\* Scene::new()
SceneInit ==
    /\ root_pipeline_id = None
    /\ pipelines = EmptyMap
    /\ arcs = EmptyMap
    /\ reader_arc = None
    /\ reader_seen = None
    /\ pipeline_epochs = EmptyMap
    /\ scene_call = New
    /\ scene_arg = None
    /\ scene_epoch = None
    /\ cleared_root = None

set_root_pipeline_id(pipeline_id) ==
    /\ root_pipeline_id' = Some(pipeline_id)
    /\ cleared_root' = None
    /\ SceneCalled(SetRootPipelineId, pipeline_id, None)
    /\ UNCHANGED <<pipelines, arcs, pipeline_epochs, reader_arc, reader_seen>>

set_display_list(pipeline_id, epoch, display_list, background_color, viewport_size, content_size) ==
    LET new_pipeline == ScenePipeline(pipeline_id, display_list, background_color,
                                      viewport_size, content_size)
        arc == Arc_new(arcs, Get(pipelines, pipeline_id))
    IN
    /\ pipelines' = Insert(pipelines, pipeline_id, arc)
    /\ arcs' = Dropped(Insert(arcs, arc, new_pipeline), Referenced(pipelines', reader_arc))
    /\ pipeline_epochs' = Insert(pipeline_epochs, pipeline_id, epoch)
    /\ SceneCalled(SetDisplayList, pipeline_id, Some(epoch))
    /\ UNCHANGED <<root_pipeline_id, cleared_root, reader_arc, reader_seen>>

remove_pipeline(pipeline_id) ==
    /\ root_pipeline_id' = RootAfterRemove(root_pipeline_id, pipeline_id)
    /\ pipelines' = Remove(pipelines, pipeline_id)
    /\ arcs' = Dropped(arcs, Referenced(pipelines', reader_arc))
    /\ pipeline_epochs' = Remove(pipeline_epochs, pipeline_id)
    /\ cleared_root' = IF root_pipeline_id = Some(pipeline_id)
                       THEN Some(pipeline_id) ELSE cleared_root
    /\ SceneCalled(RemovePipeline, pipeline_id, None)
    /\ UNCHANGED <<reader_arc, reader_seen>>

update_epoch(pipeline_id, epoch) ==
    /\ pipeline_epochs' = Insert(pipeline_epochs, pipeline_id, epoch)
    /\ SceneCalled(UpdateEpoch, pipeline_id, Some(epoch))
    /\ UNCHANGED <<root_pipeline_id, pipelines, arcs, cleared_root, reader_arc, reader_seen>>

\* A reader takes a clone of the Arc registered for pipeline_id, dropping the
\* clone it held, and looks at the snapshot.
clone_pipeline(pipeline_id) ==
    /\ ContainsKey(pipelines, pipeline_id)
    /\ reader_arc' = Some(pipelines[pipeline_id])
    /\ reader_seen' = Some(arcs[pipelines[pipeline_id]])
    /\ arcs' = Dropped(arcs, Referenced(pipelines, reader_arc'))
    /\ UNCHANGED <<root_pipeline_id, pipelines, pipeline_epochs, scene_call, scene_arg,
                   scene_epoch, cleared_root>>
    /\ UNCHANGED <<propVars, compVars>>

\* The reader drops its clone.
drop_pipeline ==
    /\ reader_arc # None
    /\ reader_arc' = None
    /\ reader_seen' = None
    /\ arcs' = Dropped(arcs, Referenced(pipelines, reader_arc'))
    /\ UNCHANGED <<root_pipeline_id, pipelines, pipeline_epochs, scene_call, scene_arg,
                   scene_epoch, cleared_root>>
    /\ UNCHANGED <<propVars, compVars>>

\* has_root_pipeline that does not look the root up.
has_root_pipeline_unchecked == root_pipeline_id # None

has_root_pipeline ==
    IF root_pipeline_id # None
    THEN ContainsKey(pipelines, root_pipeline_id[1])
    ELSE FALSE

-----------------------------------------------------------------------------
(* StackingContextHelpers                                                  *)

\* The number of function types filter_datas_for_compositing asserts.
FuncTypeCount == 4

\* mix_blend_mode_for_compositing that passes every mode on.
MixBlendModeForCompositing_passed(mode) == Some(mode)

\* The match of mix_blend_mode_for_compositing.
MixBlendModeForCompositing(mode) ==
    IF mode = Normal THEN None ELSE Some(mode)

\* debug_assert!(cond): panics when the build has debug assertions and cond is
\* false, and is nothing in a build without them.
DebugAssertPanics(debug, cond) == debug /\ ~cond

\* v[i] on a Vec, i counted from 0: panics (None) when i is out of bounds.
Index(v, i) == IF i < Len(v) THEN Some(v[i + 1]) ELSE None

\* One pass of the loop body of filter_datas_for_compositing: the FilterData
\* pushed for temp_filter_data, or None when the body panics.
PushedFilterData(debug, temp_filter_data) ==
    LET func_types == temp_filter_data.func_types IN
    IF DebugAssertPanics(debug, Len(func_types) = FuncTypeCount) THEN None
    ELSE IF \E i \in 0..3 : Index(func_types, i) = None THEN None
    ELSE Some([func_r_type |-> Index(func_types, 0)[1],
               r_values |-> temp_filter_data.r_values,
               func_g_type |-> Index(func_types, 1)[1],
               g_values |-> temp_filter_data.g_values,
               func_b_type |-> Index(func_types, 2)[1],
               b_values |-> temp_filter_data.b_values,
               func_a_type |-> Index(func_types, 3)[1],
               a_values |-> temp_filter_data.a_values])

\* The loop of filter_datas_for_compositing over input, from filter_datas: the
\* Vec it returns as <<v>>, or None when a pass panics (the Vec is dropped).
RECURSIVE FilterDatas(_, _, _)
FilterDatas(debug, input, filter_datas) ==
    IF input = <<>> THEN Some(filter_datas)
    ELSE LET pushed == PushedFilterData(debug, Head(input)) IN
         IF pushed = None THEN None
         ELSE FilterDatas(debug, Tail(input), Append(filter_datas, pushed[1]))

\* No stacking context is being flattened.
CompIdle ==
    /\ debug_assertions = TRUE
    /\ mix_blend_mode = Normal
    /\ input_filter_datas = <<>>
    /\ blend_returned = None
    /\ filter_returned = None
    /\ filter_panicked = FALSE

\* A stacking context and its filter data arrive, in a build with or without
\* debug assertions.
CompInit ==
    /\ debug_assertions \in BOOLEAN
    /\ mix_blend_mode \in MixBlendModes
    /\ input_filter_datas \in InputFilterDatas
    /\ blend_returned = None
    /\ filter_returned = None
    /\ filter_panicked = FALSE

mix_blend_mode_for_compositing ==
    /\ blend_returned' = Some(MixBlendModeForCompositing(mix_blend_mode))
    /\ UNCHANGED <<debug_assertions, mix_blend_mode, input_filter_datas, filter_returned,
                   filter_panicked>>
    /\ UNCHANGED <<propVars, sceneVars>>

filter_datas_for_compositing ==
    /\ filter_returned' = FilterDatas(debug_assertions, input_filter_datas, <<>>)
    /\ filter_panicked' = (FilterDatas(debug_assertions, input_filter_datas, <<>>) = None)
    /\ UNCHANGED <<debug_assertions, mix_blend_mode, input_filter_datas, blend_returned>>
    /\ UNCHANGED <<propVars, sceneVars>>

-----------------------------------------------------------------------------
(* Specifications                                                          *)

Init == PropInit /\ SceneInit /\ CompIdle

\* The calls a client makes on the property store.
Next ==
    \/ \E properties \in SubmittedSets : set_properties(properties)
    \/ \E properties \in SubmittedSets : add_properties(properties)
    \/ flush_pending_updates

Spec == Init /\ [][Next]_vars

\* The calls a client makes on the registry.
SceneNext ==
    \/ \E pipeline_id \in PipelineIds : set_root_pipeline_id(pipeline_id)
    \/ \E pipeline_id \in PipelineIds, epoch \in Epochs, display_list \in DisplayLists,
          background_color \in BackgroundColors, viewport_size \in ViewportSizes,
          content_size \in ContentSizes :
            set_display_list(pipeline_id, epoch, display_list, background_color,
                             viewport_size, content_size)
    \/ \E pipeline_id \in PipelineIds : remove_pipeline(pipeline_id)
    \/ \E pipeline_id \in PipelineIds, epoch \in Epochs : update_epoch(pipeline_id, epoch)

SceneSpec == Init /\ [][SceneNext]_vars

\* The calls on the registry, interleaved with a reader taking and dropping clones.
ReaderNext ==
    \/ \E pipeline_id \in PipelineIds : set_root_pipeline_id(pipeline_id)
    \/ \E pipeline_id \in PipelineIds, epoch \in ReaderEpochs, display_list \in DisplayLists,
          background_color \in BackgroundColors, viewport_size \in ViewportSizes,
          content_size \in ContentSizes :
            set_display_list(pipeline_id, epoch, display_list, background_color,
                             viewport_size, content_size)
    \/ \E pipeline_id \in PipelineIds : remove_pipeline(pipeline_id)
    \/ \E pipeline_id \in PipelineIds, epoch \in ReaderEpochs : update_epoch(pipeline_id, epoch)
    \/ \E pipeline_id \in PipelineIds : clone_pipeline(pipeline_id)
    \/ drop_pipeline

ReaderSpec == Init /\ [][ReaderNext]_vars

\* The helpers called on a stacking context.
CompositingInit == PropInit /\ SceneInit /\ CompInit

CompositingNext ==
    \/ mix_blend_mode_for_compositing
    \/ filter_datas_for_compositing

CompositingSpec == CompositingInit /\ [][CompositingNext]_vars

-----------------------------------------------------------------------------
(* Properties of the property store                                        *)

\* The ids a property list gives a value to.
Keys(list) == {list[i].key : i \in 1..Len(list)}

\* The value of the last entry of the list for the id.
LastValue(list, id) ==
    list[CHOOSE i \in 1..Len(list) :
            /\ list[i].key = id
            /\ \A j \in (i + 1)..Len(list) : list[j].key # id].value

\* No value of the set is a NaN.
NaNFree(p) ==
    /\ \A i \in 1..Len(p.transforms) : p.transforms[i].value # NaN
    /\ \A i \in 1..Len(p.floats) : p.floats[i].value # NaN

\* The lookup tables and the current set are left as they are.
CurrentUnchanged ==
    UNCHANGED <<transform_properties, float_properties, current_properties>>

C2_FlushIdempotent ==
    [][(last_call = Flush /\ last_call' = Flush) =>
         /\ ~properties_changed'
         /\ CurrentUnchanged
         /\ UNCHANGED pending_properties]_vars

\* C3: a flush returns true only when the resolved value of some binding differs
\* before and after it (stated for a flush that follows an add_properties, and
\* for sets that hold no NaN).
C3_ChangedOnlyIfValueDiffers ==
    [][(/\ last_call = AddProperties
        /\ last_call' = Flush
        /\ properties_changed'
        /\ NaNFree(current_properties)
        /\ NaNFree(current_properties')) =>
         \/ \E b \in TransformBindings :
              Resolve(transform_properties, b) # Resolve(transform_properties', b)
         \/ \E b \in FloatBindings :
              Resolve(float_properties, b) # Resolve(float_properties', b)]_vars
\* A reference binding to the id with the fallback.
Binding(id, fallback) == [kind |-> "Binding", key |-> id, value |-> fallback]

\* A set of one float entry, of one transform entry.
OneFloat(id, v) == [transforms |-> <<>>, floats |-> <<PropertyValue(id, v)>>]
OneTransform(id, v) == [transforms |-> <<PropertyValue(id, v)>>, floats |-> <<>>]

\* Two sets submitted as one: the entries of the first, then those of the second.
Together(X, Y) ==
    [transforms |-> X.transforms \o Y.transforms, floats |-> X.floats \o Y.floats]

\* The sets of at most one entry.
SmallSets == DynProps(1)

\* C4: from every reachable state, add_properties(X), add_properties(Y), flush
\* gives the return value, current set and lookup tables of add_properties(X and
\* Y together), flush; and add({a: v}), add({b: w}), flush for distinct ids a and
\* b leaves a resolving to v and b to w.
C4_Coalescing ==
    /\ \A X \in SmallSets, Y \in SmallSets :
         Flushed(AddedTo(AddedTo(pending_properties, X), Y))
           = Flushed(AddedTo(pending_properties, Together(X, Y)))
    /\ \A a \in BindingIds, b \in BindingIds : a # b =>
         /\ \A v \in FloatValues, w \in FloatValues :
              LET f == Flushed(AddedTo(AddedTo(pending_properties, OneFloat(a, v)),
                                       OneFloat(b, w)))
              IN  \A fallback \in FloatValues :
                    /\ Resolve(f.float_properties, Binding(a, fallback)) = v
                    /\ Resolve(f.float_properties, Binding(b, fallback)) = w
         /\ \A v \in TransformValues, w \in TransformValues :
              LET f == Flushed(AddedTo(AddedTo(pending_properties, OneTransform(a, v)),
                                       OneTransform(b, w)))
              IN  \A fallback \in TransformValues :
                    /\ Resolve(f.transform_properties, Binding(a, fallback)) = v
                    /\ Resolve(f.transform_properties, Binding(b, fallback)) = w

\* C4: two add_properties and a flush have left A = 1.0 and B = 2.0 resolvable.
C4_Witness ==
    /\ prev2_call = AddProperties
    /\ prev_call = AddProperties
    /\ last_call = Flush
    /\ properties_changed
    /\ current_properties.floats = <<PropertyValue("A", "1.0"), PropertyValue("B", "2.0")>>
    /\ resolve_float(Binding("A", "2.0")) = "1.0"
    /\ resolve_float(Binding("B", "1.0")) = "2.0"

\* C5: after set_properties(P) and a flush the current set is P, and the flush
\* returned true when P was not the current set; a set_properties(P) and a
\* flush that follow return false and leave the current set and the tables alone.
C5_Cancellation ==
    [][(last_call = SetProperties /\ last_call' = Flush) =>
         /\ Some(current_properties') = pending_properties
         /\ pending_properties # Some(current_properties) => properties_changed'
         /\ (/\ prev2_call = SetProperties
             /\ prev_call = Flush
             /\ pending_properties = Some(current_properties)) =>
               (~properties_changed' /\ CurrentUnchanged)]_vars

\* C6: after a flush every id of the pending lists resolves to the value of its
\* last entry; and from every reachable state, an id given v1 then v2 by two
\* add_properties, or inside one, resolves to v2 after the flush.
C6_LastWriterWins ==
    /\ (last_call = Flush /\ pending_properties # None) =>
         /\ \A id \in Keys(pending_properties[1].floats), fallback \in FloatValues :
              resolve_float(Binding(id, fallback))
                = LastValue(pending_properties[1].floats, id)
         /\ \A id \in Keys(pending_properties[1].transforms), fallback \in TransformValues :
              resolve_layout_transform(Binding(id, fallback))
                = LastValue(pending_properties[1].transforms, id)
    /\ \A id \in BindingIds :
         /\ \A v1 \in FloatValues, v2 \in FloatValues :
              LET apart == Flushed(AddedTo(AddedTo(pending_properties, OneFloat(id, v1)),
                                           OneFloat(id, v2)))
                  batch == Flushed(AddedTo(pending_properties,
                                           Together(OneFloat(id, v1), OneFloat(id, v2))))
              IN  \A fallback \in FloatValues :
                    /\ Resolve(apart.float_properties, Binding(id, fallback)) = v2
                    /\ Resolve(batch.float_properties, Binding(id, fallback)) = v2
         /\ \A v1 \in TransformValues, v2 \in TransformValues :
              LET apart == Flushed(AddedTo(AddedTo(pending_properties, OneTransform(id, v1)),
                                           OneTransform(id, v2)))
                  batch == Flushed(AddedTo(pending_properties,
                                           Together(OneTransform(id, v1), OneTransform(id, v2))))
              IN  \A fallback \in TransformValues :
                    /\ Resolve(apart.transform_properties, Binding(id, fallback)) = v2
                    /\ Resolve(batch.transform_properties, Binding(id, fallback)) = v2

\* C6: B was given NaN by one add_properties and 2.0 by the next, and resolves
\* to 2.0 after the flush.
C6_Witness ==
    /\ prev2_call = AddProperties
    /\ prev_call = AddProperties
    /\ last_call = Flush
    /\ current_properties.floats = <<PropertyValue("B", NaN), PropertyValue("B", "2.0")>>
    /\ resolve_float(Binding("B", "1.0")) = "2.0"

\* What a binding resolves to, read off a list of the current set.
ResolvedFrom(list, property) ==
    IF property.kind = "Value" THEN property.value
    ELSE IF property.key \in Keys(list) THEN LastValue(list, property.key)
    ELSE property.value

\* C7: a literal binding resolves to its literal; a reference binding resolves
\* to the value the current set gives its id, and to its fallback when the
\* current set gives it none.
C7_ResolveFollowsCurrent ==
    /\ \A b \in FloatBindings :
         resolve_float(b) = ResolvedFrom(current_properties.floats, b)
    /\ \A b \in TransformBindings :
         resolve_layout_transform(b) = ResolvedFrom(current_properties.transforms, b)

\* C7: A was flushed with 1.0 and resolves to it, B was not and resolves to
\* its fallback.
C7_Witness ==
    /\ last_call = Flush
    /\ properties_changed
    /\ Keys(current_properties.floats) = {"A"}
    /\ resolve_float(Binding("A", "2.0")) = "1.0"
    /\ resolve_float(Binding("B", "2.0")) = "2.0"

\* C8: from every reachable state, set_properties(P) and a flush leave P as
\* the current set and the tables built from P alone: an id P gives no value
\* resolves to its fallback, whatever was pending or current before.
C8_SetReplacesWholesale ==
    /\ \A P \in SubmittedSets :
         LET f == Flushed(SetTo(pending_properties, P)) IN
         /\ f.current_properties = P
         /\ f.float_properties = InsertAll(EmptyMap, P.floats)
         /\ f.transform_properties = InsertAll(EmptyMap, P.transforms)
         /\ \A id \in BindingIds \ Keys(P.floats), fallback \in FloatValues :
              Resolve(f.float_properties, Binding(id, fallback)) = fallback
         /\ \A id \in BindingIds \ Keys(P.transforms), fallback \in TransformValues :
              Resolve(f.transform_properties, Binding(id, fallback)) = fallback
    /\ (last_call = Flush /\ prev_call = SetProperties) =>
         /\ pending_properties = Some(current_properties)
         /\ float_properties = InsertAll(EmptyMap, current_properties.floats)
         /\ transform_properties = InsertAll(EmptyMap, current_properties.transforms)

\* C8: an add_properties was discarded by a set_properties of A = 1.0 alone,
\* and after the flush B resolves to its fallback.
C8_Witness ==
    /\ prev2_call = AddProperties
    /\ prev_call = SetProperties
    /\ last_call = Flush
    /\ properties_changed
    /\ current_properties = OneFloat("A", "1.0")
    /\ resolve_float(Binding("B", "1.0")) = "1.0"

\* list starts with the entries of prefix, in the same order.
StartsWith(list, prefix) ==
    /\ Len(prefix) <= Len(list)
    /\ \A i \in 1..Len(prefix) : list[i] = prefix[i]

\* C18: a flush leaves the pending slot as it was, whether it reports changed
\* or unchanged; a flush that reports unchanged also leaves the current set and
\* both lookup tables as they were; and an add_properties right after a flush
\* appends to the pending entries that were flushed, it does not start from
\* an empty set.
C18_FlushKeepsPending ==
    [][/\ last_call' = Flush =>
            /\ pending_properties' = pending_properties
            /\ ~properties_changed' => CurrentUnchanged
       /\ (last_call = Flush /\ last_call' = AddProperties /\ pending_properties # None) =>
            /\ pending_properties' # None
            /\ StartsWith(pending_properties'[1].transforms, pending_properties[1].transforms)
            /\ StartsWith(pending_properties'[1].floats, pending_properties[1].floats)]_vars

\* C18: {A: 1.0} was flushed as a change, and an add_properties of {B: 2.0}
\* after the flush left both entries pending.
C18_Witness ==
    /\ last_call = AddProperties
    /\ prev_call = Flush
    /\ properties_changed
    /\ current_properties = OneFloat("A", "1.0")
    /\ pending_properties = Some(Together(OneFloat("A", "1.0"), OneFloat("B", "2.0")))

\* C19: each lookup table is the map of the current set's list: its keys are
\* the ids of the list, no more and no fewer, and every id has the value of its
\* last entry in the list, as inserting the entries in order leaves it.
C19_TablesMirrorCurrent ==
    /\ DOMAIN transform_properties = Keys(current_properties.transforms)
    /\ DOMAIN float_properties = Keys(current_properties.floats)
    /\ \A id \in DOMAIN transform_properties :
         transform_properties[id] = LastValue(current_properties.transforms, id)
    /\ \A id \in DOMAIN float_properties :
         float_properties[id] = LastValue(current_properties.floats, id)
    /\ transform_properties = InsertAll(EmptyMap, current_properties.transforms)
    /\ float_properties = InsertAll(EmptyMap, current_properties.floats)

\* C19: the current set has a transform for A and a float for B, each table has
\* exactly that id, and a different set is already pending.
C19_Witness ==
    /\ current_properties = Together(OneTransform("A", "T1"), OneFloat("B", "2.0"))
    /\ DOMAIN transform_properties = {"A"}
    /\ DOMAIN float_properties = {"B"}
    /\ last_call = SetProperties
    /\ pending_properties = Some(OneFloat("A", "1.0"))

\* C20: set_properties and add_properties leave the current set and both lookup
\* tables as they were, so every binding resolves after the call to what it
\* resolved to before it, and so to what it resolved to after the last flush.
C20_EditsInvisibleUntilFlush ==
    [][last_call' \in {SetProperties, AddProperties} =>
          /\ CurrentUnchanged
          /\ \A b \in TransformBindings :
               resolve_layout_transform(b)' = resolve_layout_transform(b)
          /\ \A b \in FloatBindings : resolve_float(b)' = resolve_float(b)]_vars

\* C20: after a flush, a set_properties and an add_properties, B: 2.0 is
\* pending, the float table does not have B, and a binding to B resolves to
\* its fallback.
C20_Witness ==
    /\ last_call = AddProperties
    /\ prev_call = SetProperties
    /\ prev2_call = Flush
    /\ pending_properties # None
    /\ PropertyValue("B", "2.0") \in {pending_properties[1].floats[i] : i \in 1..Len(pending_properties[1].floats)}
    /\ "B" \notin DOMAIN float_properties
    /\ resolve_float(Binding("B", "1.0")) = "1.0"

-----------------------------------------------------------------------------
(* Properties of the registry                                              *)

\* C9: has_root_pipeline is true exactly when a root is set and has a pipeline
\* entry: false after set_root_pipeline_id(X) with no pipeline X, true after a
\* set_display_list of the root, false after a remove_pipeline of the root.
C9_RootConsistency ==
    /\ has_root_pipeline <=>
         \E id \in PipelineIds : root_pipeline_id = Some(id) /\ id \in DOMAIN pipelines
    /\ (scene_call = SetRootPipelineId /\ scene_arg[1] \notin DOMAIN pipelines) =>
         ~has_root_pipeline
    /\ (scene_call = SetDisplayList /\ root_pipeline_id = scene_arg) => has_root_pipeline
    /\ scene_call = RemovePipeline =>
         /\ root_pipeline_id # scene_arg
         /\ cleared_root = scene_arg => ~has_root_pipeline

\* C9: the root was set, and a set_display_list has given it a pipeline.
C9_Witness ==
    /\ scene_call = SetDisplayList
    /\ root_pipeline_id = scene_arg
    /\ has_root_pipeline

\* C10: remove_pipeline(X) leaves no snapshot and no epoch for X, clears the
\* root when it is X and keeps it otherwise, and leaves the entries of the
\* other pipelines alone; and as long as set_root_pipeline_id has not been
\* called since a remove_pipeline cleared the root, has_root_pipeline is false.
C10_RemovePipeline ==
    /\ [][scene_call' = RemovePipeline =>
            LET X == scene_arg'[1] IN
            /\ ~ContainsKey(pipelines', X)
            /\ ~ContainsKey(pipeline_epochs', X)
            /\ root_pipeline_id = Some(X) => root_pipeline_id' = None
            /\ root_pipeline_id # Some(X) => root_pipeline_id' = root_pipeline_id
            /\ \A other \in PipelineIds \ {X} :
                 /\ ContainsKey(pipelines', other) <=> ContainsKey(pipelines, other)
                 /\ ContainsKey(pipelines, other) => pipelines'[other] = pipelines[other]
                 /\ ContainsKey(pipeline_epochs', other)
                      <=> ContainsKey(pipeline_epochs, other)
                 /\ ContainsKey(pipeline_epochs, other) =>
                      pipeline_epochs'[other] = pipeline_epochs[other]]_vars
    /\ [](cleared_root # None => (root_pipeline_id = None /\ ~has_root_pipeline))

\* C10: the root P1 was removed and then given a display list again, and there
\* is no root pipeline.
C10_Witness ==
    /\ cleared_root = Some("P1")
    /\ scene_call = SetDisplayList
    /\ scene_arg = Some("P1")
    /\ ContainsKey(pipelines, "P1")
    /\ ~has_root_pipeline

\* The fields a reader looks at in the snapshot it holds.
SnapshotFields(p) == <<p.viewport_size, p.content_size, p.background_color, p.display_list>>

\* C14: snapshots are replaced, never mutated. The snapshot a reader holds shows
\* the fields the reader saw when it took it, after any later calls on the
\* registry; and no call changes an allocation that exists: an entry of the
\* pipeline map that changes (set_display_list) is given a new allocation.
C14_SnapshotsNeverMutated ==
    /\ [](reader_arc # None =>
            /\ reader_arc[1] \in DOMAIN arcs
            /\ SnapshotFields(arcs[reader_arc[1]]) = SnapshotFields(reader_seen[1]))
    /\ [][/\ \A a \in DOMAIN arcs \cap DOMAIN arcs' : arcs'[a] = arcs[a]
          /\ \A id \in DOMAIN pipelines' :
               Get(pipelines, id) # Get(pipelines', id) => pipelines'[id] \notin DOMAIN arcs]_vars

\* C14: the reader holds a snapshot of P1 taken before P1 was given another
\* display list and P2 was removed: the registry now has a different snapshot
\* of P1, and the reader's still has the display list it saw.
C14_Witness ==
    /\ reader_arc # None
    /\ reader_seen[1].pipeline_id = "P1"
    /\ reader_seen[1].display_list = "dl1"
    /\ ContainsKey(pipelines, "P1")
    /\ pipelines["P1"] # reader_arc[1]
    /\ arcs[pipelines["P1"]].display_list = "dl2"
    /\ arcs[pipelines["P1"]].background_color # reader_seen[1].background_color
    /\ arcs[reader_arc[1]].display_list = "dl1"
    /\ scene_call = RemovePipeline
    /\ scene_arg = Some("P2")

\* C11: in every reachable state of the registry the identifiers that have a
\* content entry are exactly the identifiers that have an epoch entry.
C11_SameKeys == DOMAIN pipelines = DOMAIN pipeline_epochs

\* C12: update_epoch(X, e) for an X that has no content entry changes nothing:
\* the root, the pipeline map and the epoch map are the same after the call.
C12_UpdateEpochOfUnknown ==
    [][(scene_call' = UpdateEpoch /\ ~ContainsKey(pipelines, scene_arg'[1])) =>
          UNCHANGED <<root_pipeline_id, pipelines, pipeline_epochs>>]_vars

\* C13: remove_pipeline(X) for an X that has no content entry changes nothing:
\* the root, the pipeline map and the epoch map are the same after the call,
\* also when X was named by set_root_pipeline_id or update_epoch before.
C13_RemoveOfUnknown ==
    [][(scene_call' = RemovePipeline /\ ~ContainsKey(pipelines, scene_arg'[1])) =>
          UNCHANGED <<root_pipeline_id, pipelines, pipeline_epochs>>]_vars

\* C15: the epoch stored for a pipeline never becomes smaller across
\* set_display_list and update_epoch calls.
C15_EpochNeverDecreases ==
    [][\A id \in DOMAIN pipeline_epochs \cap DOMAIN pipeline_epochs' :
          pipeline_epochs'[id] >= pipeline_epochs[id]]_vars

\* C15, amended: set_display_list(X, e) and update_epoch(X, e) store exactly the
\* epoch e the caller supplies for X and leave the epoch of every other
\* pipeline alone; the stored epoch of X becomes smaller exactly when the
\* caller supplies an epoch smaller than the stored one.
C15_EpochIsTheSuppliedOne ==
    [][scene_call' \in {SetDisplayList, UpdateEpoch} =>
          LET X == scene_arg'[1]
              e == scene_epoch'[1]
          IN
          /\ Get(pipeline_epochs', X) = Some(e)
          /\ \A other \in PipelineIds \ {X} :
               Get(pipeline_epochs', other) = Get(pipeline_epochs, other)
          /\ ContainsKey(pipeline_epochs, X) =>
               (pipeline_epochs'[X] < pipeline_epochs[X] <=> e < pipeline_epochs[X])]_vars

\* C15: update_epoch(P1, 0) was called on a registered pipeline P1, whose stored
\* epoch is now 0, below the epoch stored for P2.
C15_Witness ==
    /\ scene_call = UpdateEpoch
    /\ scene_arg = Some("P1")
    /\ scene_epoch = Some(0)
    /\ ContainsKey(pipelines, "P1")
    /\ Get(pipeline_epochs, "P1") = Some(0)
    /\ Get(pipeline_epochs, "P2") = Some(MaxEpoch)

-----------------------------------------------------------------------------
(* Properties of the compositing helpers                                   *)

\* The function-type list of a record does not have exactly four entries.
Malformed(t) == Len(t.func_types) # 4

\* C16: filter_datas_for_compositing ends in a panic, with no output, whenever a
\* record of its input has a function-type list that is not of exactly four
\* entries, and never returns a FilterData for such a record; when every record
\* has exactly four, it returns for each record its entries 0, 1, 2, 3 as the
\* red, green, blue and alpha function types.
C16_FilterDataArity ==
    (filter_returned # None \/ filter_panicked) =>
        IF \E i \in DOMAIN input_filter_datas : Malformed(input_filter_datas[i])
        THEN filter_panicked /\ filter_returned = None
        ELSE /\ ~filter_panicked
             /\ filter_returned # None
             /\ Len(filter_returned[1]) = Len(input_filter_datas)
             /\ \A i \in DOMAIN input_filter_datas :
                  /\ filter_returned[1][i].func_r_type = input_filter_datas[i].func_types[1]
                  /\ filter_returned[1][i].func_g_type = input_filter_datas[i].func_types[2]
                  /\ filter_returned[1][i].func_b_type = input_filter_datas[i].func_types[3]
                  /\ filter_returned[1][i].func_a_type = input_filter_datas[i].func_types[4]

\* C17: mix_blend_mode_for_compositing returns None exactly when the mode of the
\* stacking context is Normal, and returns every other mode as it is.
C17_MixBlendNormalization ==
    blend_returned # None =>
        /\ blend_returned[1] = None <=> mix_blend_mode = Normal
        /\ mix_blend_mode # Normal => blend_returned[1] = Some(mix_blend_mode)

\* C17: the helper returned None for a stacking context whose mode is Normal.
C17_Witness ==
    /\ mix_blend_mode = Normal
    /\ blend_returned = Some(None)

====
